---- MODULE Spec2Model ----
(***************************************************************************)
(* Model of the asynchronous job orchestration of whisper-api:             *)
(*   src/app.py           Gateway (transcribe_async), Query Service        *)
(*                        (get_job_status, get_job_result, list_jobs),     *)
(*                        Cancellation Handler (cancel_job)                *)
(*   src/celery_worker.py Worker (transcribe_audio_task)                   *)
(*   src/celery_app.py    Task Queue configuration                         *)
(*   src/utils.py         download_file_from_url                           *)
(*   src/config.py        limits                                           *)
(* Two stores hold a job: the Metadata Store (Redis hash job:<id> with a   *)
(* per-key TTL) and the Task Queue's result backend (native state).        *)
(***************************************************************************)
EXTENDS Integers, FiniteSets, Sequences, TLC

\* ------------------------------------------------------------------ bounds
\* Number of submissions the Gateway accepts (task ids the Task Queue
\* issues). Clients can name one id more, which stays an unknown id.
MaxJobs == 1
\* Number of times the broker hands the same task message to a worker.
MaxDeliveries == 2
\* Number of segments in a sidecar the engine writes.
MaxSegs == 2

\* ------------------------------------------------------- program constants
\* config.py: MAX_CONTENT_LENGTH = 500 * 1024 * 1024, counted in MB here.
MAX_CONTENT_LENGTH == 500
\* config.py: JOB_RESULT_EXPIRY, seconds.
JOB_RESULT_EXPIRY == 86400

JobIds == 1..(MaxJobs + 1)
NoJob == 0

\* Request sizes in MB: an empty file, the 5 MB and the 600 MB file of the
\* spec's scenarios.
Sizes == {0, 5, 600}
\* Uploaded file names after secure_filename: none, an audio file, a text file.
FileNames == {"", "a.wav", "b.txt"}
\* What the HTTP fetch of download_file_from_url meets.
UrlOutcomes == {"invalid_url", "http_error", "header_too_large",
                "stream_too_large", "stream_error", "ok"}

\* Redis TTL replies: -1 key without expiry (celery_worker.py:195), one less
\* for no such key.
TTL_NO_EXPIRY == -1
TTL_NO_KEY == TTL_NO_EXPIRY - 1
SWEEP_TTL == 86400

\* strftime('%Y%m%d_%H%M%S_') prefixes, to the second; 0 is no prefix.
Timestamps == {1}
NoPath == <<0, "">>

NoRec == [present |-> FALSE, status |-> "none", result |-> NoJob,
          completed_at |-> FALSE]

NativeStates == {"PENDING", "STARTED", "PROCESSING", "SUCCESS", "FAILURE",
                 "REVOKED"}
\* AsyncResult of an id the result backend holds nothing for: PENDING.
NoTask == [state |-> "PENDING", progress |-> -1, result |-> NoJob,
           error |-> "none"]

NoInput == [kind |-> "none", filename |-> "", size |-> 0, url |-> "none"]
\* The requests a client can send to transcribe_async: a multipart upload, a
\* JSON body with file_url, or neither.
Inputs ==
  [kind : {"file"}, filename : FileNames, size : Sizes, url : {"none"}]
  \cup {i \in [kind : {"url"}, filename : {"a.wav"}, size : Sizes,
                url : UrlOutcomes] :
          /\ i.url \in {"header_too_large", "stream_too_large"}
                => i.size > MAX_CONTENT_LENGTH
          /\ i.url = "ok" => i.size <= MAX_CONTENT_LENGTH}
  \cup {NoInput}
IdleSub == [pc |-> "idle", input |-> NoInput, path |-> NoPath, job |-> NoJob]
IdleWorker == [pc |-> "idle", job |-> NoJob, path |-> NoPath, raised |-> "none"]
IdleCancel == [pc |-> "idle", job |-> NoJob]
\* A response of the API: the endpoint (op), the job it is about, the HTTP
\* code and the JSON keys the claims read (progress -1: the key is absent).
\* input and fault belong to a submit: the request answered and the service
\* ("startup", "queue", "store") that was unreachable while it was handled.
NoResp == [op |-> "none", job |-> NoJob, code |-> 0, status |-> "none",
           progress |-> -1, result_url |-> FALSE, message |-> "",
           body |-> NoJob, jobs |-> {}, input |-> NoInput, fault |-> "none"]

\* A text is the sequence of its characters. The texts a segment of the
\* sidecar can carry: empty, blank, a word, a word after a blank.
SegTexts == {<< >>, <<" ">>, <<"a">>, <<" ", "b">>}
SegLists == UNION {[1..n -> SegTexts] : n \in 0..MaxSegs}

\* The JSON sidecar: {"result": [...]}, {"transcription": ..., "segments":
\* [...]}, or an object with neither key. A segment is given by its text.
NoSidecar == [shape |-> "none", result |-> << >>, transcription |-> << >>,
              segments |-> << >>]
Sidecars ==
  {[NoSidecar EXCEPT !.shape = "result", !.result = r] : r \in SegLists}
  \cup {[NoSidecar EXCEPT !.shape = "transcription", !.transcription = t,
                           !.segments = g] :
          t \in {<< >>, <<"a", " ", "b">>}, g \in SegLists}
  \cup {NoSidecar}
NoOutput == [done |-> FALSE, text |-> << >>, segments |-> << >>]
NoExtract == [worker |-> NoOutput, sync |-> NoOutput]

VARIABLES
  redis_client,  \* app.py:38-48  "conn" or "None" (the startup ping failed)
  meta,          \* Metadata Store: job id -> hash job:<id>
  ttl,           \* Metadata Store: job id -> TTL of key job:<id>
  backend,       \* result backend: job id -> native task state and info
  queue,         \* broker: job id -> task messages waiting for a worker
  deliveries,    \* broker: job id -> deliveries of the task message so far
  args,          \* task message: job id -> audio_path argument
  revoking,      \* revoke broadcasts sent and not yet received by the worker:
                 \* <<job id, whether it was sent after the engine returned>>
  revoked,       \* the worker's set of revoked task ids
  files,         \* paths existing in UPLOAD_FOLDER
  nextId,        \* next task id the Task Queue issues
  sub,           \* the Gateway's transcribe_async request in flight
  wk,            \* the worker slot (prefetch = 1)
  cn,            \* the Gateway's cancel_job request in flight
  resp,          \* the response the API sent last
  data,          \* content of the JSON sidecar the engine wrote
  extracted      \* text and segments each path has extracted from data

vars == <<redis_client, meta, ttl, backend, queue, deliveries, args, revoking,
          revoked, files, nextId, sub, wk, cn, resp, data, extracted>>

storeVars == <<meta, ttl>>
queueVars == <<backend, queue, deliveries, args, revoking, revoked>>

InitSystem ==
  /\ redis_client \in {"conn", "None"}
  /\ meta = [j \in JobIds |-> NoRec]
  /\ ttl = [j \in JobIds |-> TTL_NO_KEY]
  /\ backend = [j \in JobIds |-> NoTask]
  /\ queue = [j \in JobIds |-> 0]
  /\ deliveries = [j \in JobIds |-> 0]
  /\ args = [j \in JobIds |-> NoPath]
  /\ revoking = {}
  /\ revoked = {}
  /\ files = {}
  /\ nextId = 1
  /\ sub = IdleSub
  /\ wk = IdleWorker
  /\ cn = IdleCancel
  /\ resp = NoResp

Init ==
  /\ InitSystem
  /\ data = NoSidecar
  /\ extracted = NoExtract

\* ------------------------------------------------------- Metadata Store
\* A write that replaces the whole hash by the fields given.
HSet_replace(rec, upd) ==
  [f \in DOMAIN rec |->
     IF f = "present" THEN TRUE
     ELSE IF f \in DOMAIN upd THEN upd[f] ELSE NoRec[f]]

\* HSET key mapping: field-level merge; creates the key when it is absent.
HSet(rec, upd) ==
  [f \in DOMAIN rec |->
     IF f = "present" THEN TRUE
     ELSE IF f \in DOMAIN upd THEN upd[f] ELSE rec[f]]

\* TTL of a key after HSET: a key HSET creates has no expiry, an existing key
\* keeps its TTL.
TtlAfterHSet(j) == IF meta[j].present THEN ttl[j] ELSE TTL_NO_EXPIRY

\* A submit that leaves out the expire call: the key keeps what HSET left.
expire_skipped(j, seconds) == ttl' = [ttl EXCEPT ![j] = TtlAfterHSet(j)]

\* app.py:552 redis_client.expire(job:<id>, seconds), right after the HSET
\* of the same request (the key exists).
expire(j, seconds) == ttl' = [ttl EXCEPT ![j] = seconds]

\* ------------------------------------------------------------- Gateway
\* Path(filepath).suffix.lower() on the file names of the model.
Suffix(name) ==
  CASE name = "a.wav" -> ".wav"
    [] name = "b.txt" -> ".txt"
    [] OTHER -> ""

\* app.py:100-104 validate_audio_file.
validate_audio_file(name) ==
  Suffix(name) \in {".mp3", ".wav", ".m4a", ".flac", ".ogg", ".wma", ".aac"}

\* utils.py download_file_from_url: the exception it leaves with ("none" when
\* it returns filepath) and the upload folder afterwards. filepath is
\* upload_folder/filename, without timestamp.
download_file_from_url(inp) ==
  LET filepath == <<0, inp.filename>> IN
  CASE inp.url = "invalid_url" ->
         \* ValueError raised before filepath is bound; the handler of line 70
         \* reads filepath and raises UnboundLocalError
         [exc |-> "UnboundLocalError", files |-> files, path |-> NoPath]
    [] inp.url = "http_error" ->
         [exc |-> "ValueError", files |-> files, path |-> NoPath]
    [] inp.url = "header_too_large" ->
         [exc |-> "ValueError", files |-> files \ {filepath}, path |-> NoPath]
    [] inp.url = "stream_too_large" ->
         [exc |-> "ValueError", files |-> files \ {filepath}, path |-> NoPath]
    [] inp.url = "stream_error" ->
         \* RequestException while iterating: the partial file stays
         [exc |-> "ValueError", files |-> files \cup {filepath},
          path |-> NoPath]
    [] OTHER ->
         [exc |-> "none", files |-> files \cup {filepath}, path |-> filepath]

\* app.py:556-576: the request is answered; job is the task id issued to
\* it, if any.
SubmitReturn(inp, job, code, fault) ==
  /\ resp' = [NoResp EXCEPT !.op = "submit", !.job = job, !.code = code,
                            !.status = IF code = 202 THEN "submitted"
                                       ELSE "error",
                            !.input = inp, !.fault = fault]
  /\ sub' = IdleSub

\* app.py:564-576: the catch-all of transcribe_async removes filepath when it
\* is set and exists, and answers 500.
SubmitExcept(fault) ==
  /\ SubmitReturn(sub.input, sub.job, 500, fault)
  /\ files' = files \ {sub.path}

\* app.py:465-523: the 503 guard, reading the request, saving the upload or
\* downloading the URL.
SubmitBeginUpTo(inp, ts, cap) ==
  /\ sub.pc = "idle"
  /\ nextId <= cap
  /\ UNCHANGED <<redis_client, data, extracted, storeVars, queueVars, nextId, wk, cn>>
  /\ IF redis_client = "None"
     THEN /\ SubmitReturn(inp, NoJob, 503, "startup")
          /\ UNCHANGED files
     ELSE IF inp.kind = "file" /\ inp.size > MAX_CONTENT_LENGTH
     THEN \* request.form raises RequestEntityTooLarge inside the try; the
          \* catch-all of line 564 answers 500
          /\ SubmitReturn(inp, NoJob, 500, "none")
          /\ UNCHANGED files
     ELSE IF inp.kind = "file"
     THEN IF inp.filename = ""
          THEN /\ SubmitReturn(inp, NoJob, 400, "none")
               /\ UNCHANGED files
          ELSE /\ sub' = [IdleSub EXCEPT !.pc = "saved", !.input = inp,
                                         !.path = <<ts, inp.filename>>]
               /\ files' = files \cup {<<ts, inp.filename>>}
               /\ UNCHANGED resp
     ELSE IF inp.kind = "url"
     THEN LET d == download_file_from_url(inp) IN
          IF d.exc = "ValueError"
          THEN /\ SubmitReturn(inp, NoJob, 400, "none")
               /\ files' = d.files
          ELSE IF d.exc # "none"
          THEN /\ SubmitReturn(inp, NoJob, 500, "none")
               /\ files' = d.files
          ELSE \* os.rename to the timestamped name
               /\ sub' = [IdleSub EXCEPT !.pc = "saved", !.input = inp,
                                         !.path = <<ts, inp.filename>>]
               /\ files' = (d.files \ {d.path}) \cup {<<ts, inp.filename>>}
               /\ UNCHANGED resp
     ELSE /\ SubmitReturn(inp, NoJob, 400, "none")
          /\ UNCHANGED files

\* The same, for the first MaxJobs task ids.
SubmitBegin(inp, ts) == SubmitBeginUpTo(inp, ts, MaxJobs)

\* app.py:529-541: transcribe_audio_task.delay(...); job_id = task.id.
\* brokerOk: whether the broker takes the message.
SubmitEnqueue(brokerOk) ==
  /\ sub.pc = "saved"
  /\ UNCHANGED <<redis_client, data, extracted, storeVars, backend, revoking, revoked, wk, cn>>
  /\ IF sub.path \notin files
     THEN \* os.path.getsize raises
          /\ SubmitExcept("none")
          /\ UNCHANGED <<queue, deliveries, args, nextId>>
     ELSE IF ~brokerOk
     THEN /\ SubmitExcept("queue")
          /\ UNCHANGED <<queue, deliveries, args, nextId>>
     ELSE /\ sub' = [sub EXCEPT !.pc = "enqueued", !.job = nextId]
          /\ queue' = [queue EXCEPT ![nextId] = @ + 1]
          /\ args' = [args EXCEPT ![nextId] = sub.path]
          /\ nextId' = nextId + 1
          /\ UNCHANGED <<deliveries, files, resp>>

\* app.py:543-562: redis_client.hset(job:<id>, mapping={status: submitted,
\* ...}), redis_client.expire(job:<id>, JOB_RESULT_EXPIRY), then the 202
\* response with job_id. hsetOk, expireOk: whether each call gets through.
SubmitStore(hsetOk, expireOk) ==
  /\ sub.pc = "enqueued"
  /\ UNCHANGED <<redis_client, data, extracted, queueVars, nextId, wk, cn>>
  /\ IF ~hsetOk
     THEN /\ SubmitExcept("store")
          /\ UNCHANGED storeVars
     ELSE /\ meta' = [meta EXCEPT ![sub.job] =
                        HSet(@, [status |-> "submitted"])]
          /\ IF ~expireOk
             THEN /\ SubmitExcept("store")
                  /\ ttl' = [ttl EXCEPT ![sub.job] = TtlAfterHSet(sub.job)]
             ELSE /\ expire(sub.job, JOB_RESULT_EXPIRY)
                  /\ SubmitReturn(sub.input, sub.job, 202, "none")
                  /\ UNCHANGED files

\* transcribe_async on the requests of ins.
Submit(ins) ==
  \/ \E inp \in ins, ts \in Timestamps : SubmitBegin(inp, ts)
  \/ \E ok \in BOOLEAN : SubmitEnqueue(ok)
  \/ \E h \in BOOLEAN, e \in BOOLEAN : SubmitStore(h, e)

\* -------------------------------------------------------------- Worker
\* The payload transcribe_audio_task returns for job j (result_data).
ResultData(j) == j

\* The messages with the timeout caught by the generic handler.
ErrorMessage_generic(raised) ==
  CASE raised = "timeout" -> "Transcription error: TimeoutExpired"
    [] raised = "not_found" -> "Transcription error: Audio file not found"
    [] raised = "engine_failed" -> "Transcription error: Transcription failed"
    [] raised = "no_output" ->
         "Transcription error: No output generated from whisper"
    [] raised = "bad_json" -> "Transcription error: JSONDecodeError"
    [] OTHER -> "Transcription error: ConnectionError"

\* The message of the TranscriptionError the task leaves with.
ErrorMessage(raised) ==
  CASE raised = "timeout" -> "Transcription timeout (30 minutes exceeded)"
    [] raised = "not_found" -> "Transcription error: Audio file not found"
    [] raised = "engine_failed" -> "Transcription error: Transcription failed"
    [] raised = "no_output" ->
         "Transcription error: No output generated from whisper"
    [] raised = "bad_json" -> "Transcription error: JSONDecodeError"
    [] OTHER -> "Transcription error: ConnectionError"

\* An exception no handler catches: the task function never gets to its end.
Raise_unhandled(what) == wk' = [wk EXCEPT !.pc = "crashed", !.raised = what]

\* celery_worker.py:158-175: what the task body raises is re-raised as
\* TranscriptionError by the except clauses, and the finally block runs.
Raise(what) == wk' = [wk EXCEPT !.pc = "finally", !.raised = what]

\* The worker takes a task message. A revoked id is discarded and marked
\* REVOKED; otherwise the task is marked STARTED (task_track_started).
Deliver(j) ==
  /\ wk.pc = "idle"
  /\ queue[j] > 0
  /\ queue' = [queue EXCEPT ![j] = @ - 1]
  /\ deliveries' = [deliveries EXCEPT ![j] = @ + 1]
  /\ IF j \in revoked
     THEN /\ backend' = [backend EXCEPT ![j] =
                           [NoTask EXCEPT !.state = "REVOKED"]]
          /\ UNCHANGED wk
     ELSE /\ backend' = [backend EXCEPT ![j] =
                           [NoTask EXCEPT !.state = "STARTED"]]
          /\ wk' = [IdleWorker EXCEPT !.pc = "p10", !.job = j,
                                      !.path = args[j]]
  /\ UNCHANGED <<redis_client, data, extracted, storeVars, args, revoking, revoked, files,
                 nextId, sub, cn, resp>>

\* self.update_state(state='PROCESSING', meta={..., 'progress': p}).
update_state(j, p) ==
  backend' = [backend EXCEPT ![j] =
                [NoTask EXCEPT !.state = "PROCESSING", !.progress = p]]

\* celery_worker.py:55-59.
WorkerProgress10 ==
  /\ wk.pc = "p10"
  /\ update_state(wk.job, 10)
  /\ wk' = [wk EXCEPT !.pc = "check"]
  /\ UNCHANGED <<redis_client, data, extracted, storeVars, queue, deliveries, args, revoking,
                 revoked, files, nextId, sub, cn, resp>>

\* celery_worker.py:64-82: the input file must exist.
WorkerCheckInput ==
  /\ wk.pc = "check"
  /\ IF wk.path \in files
     THEN wk' = [wk EXCEPT !.pc = "p30"]
     ELSE Raise("not_found")
  /\ UNCHANGED <<redis_client, data, extracted, storeVars, queueVars, files, nextId, sub, cn,
                 resp>>

\* Progress 30 published ahead of the input-file check.
WorkerProgress30_early ==
  /\ wk.pc = "check"
  /\ update_state(wk.job, 30)
  /\ wk' = [wk EXCEPT !.pc = "engine"]
  /\ UNCHANGED <<redis_client, data, extracted, storeVars, queue, deliveries, args, revoking,
                 revoked, files, nextId, sub, cn, resp>>

\* celery_worker.py:84-88.
WorkerProgress30 ==
  /\ wk.pc = "p30"
  /\ update_state(wk.job, 30)
  /\ wk' = [wk EXCEPT !.pc = "engine"]
  /\ UNCHANGED <<redis_client, data, extracted, storeVars, queue, deliveries, args, revoking,
                 revoked, files, nextId, sub, cn, resp>>

\* celery_worker.py:90-101: subprocess.run with the 1800 s timeout.
WorkerEngine(outcome) ==
  /\ wk.pc = "engine"
  /\ CASE outcome = "ok" -> wk' = [wk EXCEPT !.pc = "sidecar"]
       [] outcome = "nonzero" -> Raise("engine_failed")
       [] OTHER -> Raise("timeout")
  /\ UNCHANGED <<redis_client, data, extracted, storeVars, queueVars, files, nextId, sub, cn,
                 resp>>

\* celery_worker.py:105-145: read and parse the sidecar, build result_data.
WorkerSidecar(sidecar) ==
  /\ wk.pc = "sidecar"
  /\ CASE sidecar = "ok" -> wk' = [wk EXCEPT !.pc = "hset"]
       [] sidecar = "missing" -> Raise("no_output")
       [] OTHER -> Raise("bad_json")
  /\ UNCHANGED <<redis_client, data, extracted, storeVars, queueVars, files, nextId, sub, cn,
                 resp>>

\* celery_worker.py:147-156: mirror the outcome into job:<id>, then return.
WorkerHset(storeOk) ==
  /\ wk.pc = "hset"
  /\ IF storeOk
     THEN /\ meta' = [meta EXCEPT ![wk.job] =
                        HSet(@, [status |-> "completed",
                                 result |-> ResultData(wk.job),
                                 completed_at |-> TRUE])]
          /\ ttl' = [ttl EXCEPT ![wk.job] = TtlAfterHSet(wk.job)]
          /\ wk' = [wk EXCEPT !.pc = "finally"]
     ELSE /\ Raise("store_error")
          /\ UNCHANGED storeVars
  /\ UNCHANGED <<redis_client, data, extracted, queueVars, files, nextId, sub, cn, resp>>

\* celery_worker.py:168-175: the finally block removes the audio file.
WorkerFinally ==
  /\ wk.pc = "finally"
  /\ files' = files \ {wk.path}
  /\ wk' = [wk EXCEPT !.pc = "store"]
  /\ UNCHANGED <<redis_client, data, extracted, storeVars, queueVars, nextId, sub, cn,
                 resp>>

\* The task body has returned or raised: the Task Queue stores SUCCESS with
\* the returned payload or FAILURE with the exception.
WorkerStore ==
  /\ wk.pc = "store"
  /\ backend' = [backend EXCEPT ![wk.job] =
       IF wk.raised = "none"
       THEN [NoTask EXCEPT !.state = "SUCCESS", !.result = ResultData(wk.job)]
       ELSE [NoTask EXCEPT !.state = "FAILURE",
                           !.error = ErrorMessage(wk.raised)]]
  /\ wk' = IdleWorker
  /\ UNCHANGED <<redis_client, data, extracted, storeVars, queue, deliveries, args, revoking,
                 revoked, files, nextId, sub, cn, resp>>

\* The worker receives a revoke(terminate=True, signal='SIGKILL') broadcast:
\* the id joins its revoked set; a running task of that id is killed (its
\* finally block does not run) and marked REVOKED.
RevokeArrive(r) ==
  /\ r \in revoking
  /\ revoking' = revoking \ {r}
  /\ revoked' = revoked \cup {r[1]}
  /\ IF wk.job = r[1]
     THEN /\ wk' = IdleWorker
          /\ backend' = [backend EXCEPT ![r[1]] =
                           [NoTask EXCEPT !.state = "REVOKED"]]
     ELSE UNCHANGED <<wk, backend>>
  /\ UNCHANGED <<redis_client, data, extracted, storeVars, queue, deliveries, args, files,
                 nextId, sub, cn, resp>>

\* celery_worker.py:54-175: the next step of the task the worker is running.
TaskStep ==
  \/ WorkerProgress10
  \/ WorkerCheckInput
  \/ WorkerProgress30
  \/ \E o \in {"ok", "nonzero", "timeout"} : WorkerEngine(o)
  \/ \E s \in {"ok", "missing", "invalid"} : WorkerSidecar(s)
  \/ \E ok \in BOOLEAN : WorkerHset(ok)
  \/ WorkerFinally
  \/ WorkerStore

Worker ==
  \/ \E j \in JobIds : Deliver(j)
  \/ TaskStep
  \/ \E r \in revoking : RevokeArrive(r)

\* ------------------------------------------------- Task Queue and store
\* At-least-once delivery: a message already delivered is delivered again.
Redeliver(j) ==
  /\ deliveries[j] >= 1
  /\ deliveries[j] < MaxDeliveries
  /\ queue[j] = 0
  /\ queue' = [queue EXCEPT ![j] = 1]
  /\ UNCHANGED <<redis_client, data, extracted, storeVars, backend, deliveries, args, revoking,
                 revoked, files, nextId, sub, wk, cn, resp>>

\* The TTL of key job:<id> runs out: Redis evicts the key.
ExpireMeta(j) ==
  /\ ttl[j] > 0
  /\ meta' = [meta EXCEPT ![j] = NoRec]
  /\ ttl' = [ttl EXCEPT ![j] = TTL_NO_KEY]
  /\ UNCHANGED <<redis_client, data, extracted, queueVars, files, nextId, sub, wk, cn,
                 resp>>

\* result_expires runs out: the result backend forgets a finished task, whose
\* native state reads PENDING again.
ExpireResult(j) ==
  /\ backend[j].state \in {"SUCCESS", "FAILURE", "REVOKED"}
  /\ backend' = [backend EXCEPT ![j] = NoTask]
  /\ UNCHANGED <<redis_client, data, extracted, storeVars, queue, deliveries, args, revoking,
                 revoked, files, nextId, sub, wk, cn, resp>>

\* celery_worker.py:188-195: the keys of KEYS job:* whose TTL reads -1, the
\* TTLs being t.
NoExpiryKeys(t) == {j \in JobIds : meta[j].present /\ t[j] = TTL_NO_EXPIRY}

\* A loop that calls expire on every job id, whatever its TTL reads.
Swept_every(t, done) == [j \in JobIds |-> SWEEP_TTL]

\* celery_worker.py:195-198: redis_client.expire(key, 86400) on the keys done.
Swept(t, done) == [j \in JobIds |-> IF j \in done THEN SWEEP_TTL ELSE t[j]]

\* celery_worker.py:178-212 cleanup_old_jobs: every key job:* whose TTL reads
\* -1 is given SWEEP_TTL. done: the keys reached before a store error ends the
\* loop (all of them when there is none).
cleanup_old_jobs(done) ==
  /\ done \subseteq NoExpiryKeys(ttl)
  /\ ttl' = Swept(ttl, done)
  /\ UNCHANGED <<redis_client, data, extracted, meta, queueVars, files, nextId, sub, wk, cn,
                 resp>>

\* The cleanup task, when something sends it to the Task Queue.
Sweeper == \E done \in SUBSET JobIds : cleanup_old_jobs(done)

Environment ==
  \/ \E j \in JobIds : Redeliver(j)
  \/ \E j \in JobIds : ExpireMeta(j)
  \/ \E j \in JobIds : ExpireResult(j)

\* ------------------------------------------------- Cancellation Handler
\* app.py:720-744: cancel_job answers.
CancelReturn(j, code) ==
  /\ resp' = [NoResp EXCEPT !.op = "cancel", !.job = j, !.code = code,
                            !.status = IF code = 200 THEN "success"
                                       ELSE "error"]
  /\ cn' = IdleCancel

\* celery_worker.py:90-156: the task of job j is running and its engine
\* invocation has returned control to the Worker.
PastEngine(j) ==
  /\ wk.job = j
  /\ \/ wk.pc \in {"sidecar", "hset"}
     \/ wk.pc \in {"finally", "store"} /\ wk.raised # "not_found"

\* app.py:707-726: the 503 guard, the existence check, task.revoke.
CancelBegin(j, storeOk, brokerOk) ==
  /\ cn.pc = "idle"
  /\ IF redis_client = "None"
     THEN /\ CancelReturn(j, 503)
          /\ UNCHANGED revoking
     ELSE IF ~storeOk
     THEN /\ CancelReturn(j, 500)
          /\ UNCHANGED revoking
     ELSE IF ~meta[j].present
     THEN /\ CancelReturn(j, 404)
          /\ UNCHANGED revoking
     ELSE IF ~brokerOk
     THEN /\ CancelReturn(j, 500)
          /\ UNCHANGED revoking
     ELSE /\ cn' = [pc |-> "hset", job |-> j]
          /\ revoking' = revoking \cup {<<j, PastEngine(j)>>}
          /\ UNCHANGED resp
  /\ UNCHANGED <<redis_client, data, extracted, storeVars, backend, queue, deliveries, args,
                 revoked, files, nextId, sub, wk>>

\* app.py:728-737: redis_client.hset(job:<id>, 'status', 'cancelled'), 200.
CancelHset(storeOk) ==
  /\ cn.pc = "hset"
  /\ IF storeOk
     THEN /\ meta' = [meta EXCEPT ![cn.job] =
                        HSet(@, [status |-> "cancelled"])]
          /\ ttl' = [ttl EXCEPT ![cn.job] = TtlAfterHSet(cn.job)]
          /\ CancelReturn(cn.job, 200)
     ELSE /\ CancelReturn(cn.job, 500)
          /\ UNCHANGED storeVars
  /\ UNCHANGED <<redis_client, data, extracted, queueVars, files, nextId, sub, wk>>

Cancel ==
  \/ \E j \in JobIds, s \in BOOLEAN, b \in BOOLEAN : CancelBegin(j, s, b)
  \/ \E s \in BOOLEAN : CancelHset(s)

\* --------------------------------------------------------- Query Service
\* str.lower() on the native states.
Lower(state) ==
  CASE state = "PENDING" -> "pending"
    [] state = "STARTED" -> "started"
    [] state = "PROCESSING" -> "processing"
    [] state = "SUCCESS" -> "success"
    [] state = "FAILURE" -> "failure"
    [] state = "REVOKED" -> "revoked"
    [] OTHER -> state

ErrorResponse(op, j, code) ==
  [NoResp EXCEPT !.op = op, !.job = j, !.code = code, !.status = "error"]

\* A lookup that also takes a task the result backend knows for a job.
job_found_backend(j) == meta[j].present \/ backend[j].state # "PENDING"

\* app.py:603-610: hgetall(job:<id>) replies a non-empty hash.
job_found(j) == meta[j].present

\* The mapping with the fallback arm of list_jobs: every other native state
\* reads queued.
status_of_queued_fallback(task) ==
  IF task.state = "PROCESSING"
  THEN [status |-> "processing",
        progress |-> IF task.progress >= 0 THEN task.progress ELSE 30,
        result_url |-> FALSE]
  ELSE IF task.state = "SUCCESS"
  THEN [status |-> "completed", progress |-> 100, result_url |-> TRUE]
  ELSE IF task.state = "FAILURE"
  THEN [status |-> "failed", progress |-> 0, result_url |-> FALSE]
  ELSE [status |-> "queued", progress |-> 0, result_url |-> FALSE]

\* app.py:620-641: the unified status, progress and result_url get_job_status
\* derives from the native state and info of a task.
status_of(task) ==
  IF task.state = "PENDING"
  THEN [status |-> "queued", progress |-> 0, result_url |-> FALSE]
  ELSE IF task.state = "PROCESSING"
  THEN [status |-> "processing",
        progress |-> IF task.progress >= 0 THEN task.progress ELSE 30,
        result_url |-> FALSE]
  ELSE IF task.state = "SUCCESS"
  THEN [status |-> "completed", progress |-> 100, result_url |-> TRUE]
  ELSE IF task.state = "FAILURE"
  THEN [status |-> "failed", progress |-> 0, result_url |-> FALSE]
  ELSE [status |-> Lower(task.state), progress |-> 0, result_url |-> FALSE]

\* app.py:593-650 get_job_status. storeOk, backendOk: whether hgetall and
\* the read of task.state get through.
get_job_status(j, storeOk, backendOk) ==
  LET task == backend[j]
      u == status_of(task)
  IN
  IF redis_client = "None" THEN ErrorResponse("status", j, 503)
  ELSE IF ~storeOk THEN ErrorResponse("status", j, 500)
  ELSE IF ~job_found(j) THEN ErrorResponse("status", j, 404)
  ELSE IF ~backendOk THEN ErrorResponse("status", j, 500)
  ELSE [NoResp EXCEPT !.op = "status", !.job = j, !.code = 200,
                      !.status = u.status, !.progress = u.progress,
                      !.result_url = u.result_url,
                      !.message = IF task.state = "FAILURE" THEN task.error
                                  ELSE ""]

\* The codes with every state but PENDING and FAILURE taken as finished.
result_code_eager(state) ==
  IF state = "PENDING" THEN 202
  ELSE IF state = "FAILURE" THEN 400
  ELSE 200

\* app.py:671-691: the HTTP code get_job_result answers for a native state.
result_code(state) ==
  IF state = "SUCCESS" THEN 200
  ELSE IF state = "FAILURE" THEN 400
  ELSE IF state = "PENDING" THEN 202
  ELSE 202

\* app.py:661-698 get_job_result.
get_job_result(j, backendOk) ==
  LET task == backend[j] IN
  IF redis_client = "None" THEN ErrorResponse("result", j, 503)
  ELSE IF ~backendOk THEN ErrorResponse("result", j, 500)
  ELSE IF result_code(task.state) = 200
  THEN [NoResp EXCEPT !.op = "result", !.job = j, !.code = 200,
                      !.status = "success", !.body = task.result]
  ELSE [ErrorResponse("result", j, result_code(task.state)) EXCEPT
          !.message = IF task.state = "FAILURE" THEN task.error
                      ELSE IF task.state = "PENDING"
                      THEN "Job not yet started"
                      ELSE "Job still processing"]

\* app.py:786-794: the status list_jobs gives a native state.
list_status(state) ==
  IF state = "SUCCESS" THEN "completed"
  ELSE IF state = "FAILURE" THEN "failed"
  ELSE IF state = "PROCESSING" THEN "processing"
  ELSE "queued"

NoFilter == "none"
Filters == {NoFilter, "queued", "processing", "completed", "failed"}

\* app.py:757-810 list_jobs: keys is job_keys[:limit], in the order KEYS
\* replied.
list_jobs(keys, status_filter, ok) ==
  IF redis_client = "None" THEN ErrorResponse("list", NoJob, 503)
  ELSE IF ~ok THEN ErrorResponse("list", NoJob, 500)
  ELSE [NoResp EXCEPT !.op = "list", !.code = 200, !.status = "success",
          !.jobs = {<<j, list_status(backend[j].state)>> : j \in
                      {k \in keys :
                         \/ status_filter = NoFilter
                         \/ list_status(backend[k].state) = status_filter}}]

JobKeys == {j \in JobIds : meta[j].present}
Min(a, b) == IF a < b THEN a ELSE b

GetStatus(j, storeOk, backendOk) ==
  /\ resp' = get_job_status(j, storeOk, backendOk)
  /\ UNCHANGED <<redis_client, data, extracted, storeVars, queueVars, files, nextId, sub, wk,
                 cn>>

GetResult(j, backendOk) ==
  /\ resp' = get_job_result(j, backendOk)
  /\ UNCHANGED <<redis_client, data, extracted, storeVars, queueVars, files, nextId, sub, wk,
                 cn>>

ListJobs(status_filter, limit, ok) ==
  /\ \E keys \in SUBSET JobKeys :
       /\ Cardinality(keys) = Min(limit, Cardinality(JobKeys))
       /\ resp' = list_jobs(keys, status_filter, ok)
  /\ UNCHANGED <<redis_client, data, extracted, storeVars, queueVars, files, nextId, sub, wk,
                 cn>>

Query ==
  \/ \E j \in JobIds, s \in BOOLEAN, b \in BOOLEAN : GetStatus(j, s, b)
  \/ \E j \in JobIds, b \in BOOLEAN : GetResult(j, b)
  \/ \E f \in Filters, limit \in {1, 50}, ok \in BOOLEAN : ListJobs(f, limit, ok)

\* ------------------------------------------------------ specification
\* The Gateway under every kind of request, with the Worker, the
\* Cancellation Handler and the stores.
Next == Submit(Inputs) \/ Worker \/ Cancel \/ Environment \/ Sweeper

Spec == Init /\ [][Next]_vars

\* The Query Service polled by clients while well-formed uploads are
\* processed.
PlainUploads == {[kind |-> "file", filename |-> "a.wav", size |-> 5,
                  url |-> "none"]}

NextQuery ==
  Submit(PlainUploads) \/ Worker \/ Cancel \/ Environment \/ Sweeper \/ Query

SpecQuery == Init /\ [][NextQuery]_vars

\* The same system with the progress its scheduling gives: the worker
\* process keeps running the task it has, taking the next message and
\* receiving revokes, and a request the Gateway has
\* begun is handled to its response. Nothing sends the cleanup task
\* (celery_app.py sets no beat_schedule), so no run of it is promised.
GatewayProgress ==
  \/ \E b \in BOOLEAN : SubmitEnqueue(b)
  \/ \E h \in BOOLEAN, e \in BOOLEAN : SubmitStore(h, e)
  \/ \E ok \in BOOLEAN : CancelHset(ok)

NextLive == Submit(PlainUploads) \/ Worker \/ Cancel \/ Environment \/ Sweeper

SpecLive ==
  /\ Init /\ [][NextLive]_vars
  /\ WF_vars(TaskStep)
  /\ WF_vars(\E j \in JobIds : Deliver(j))
  /\ WF_vars(\E r \in revoking : RevokeArrive(r))
  /\ WF_vars(GatewayProgress)

\* ------------------------------------------------------------- claims
StoreReachable == redis_client = "conn"
Issued(j) == j \in JobIds /\ j < nextId

C2_NotFoundIffNoRecord ==
  \A j \in JobIds :
    /\ \A s \in BOOLEAN, b \in BOOLEAN :
         get_job_status(j, s, b).code = 404 => ~meta[j].present
    /\ StoreReachable =>
         /\ \A b \in BOOLEAN :
              ~meta[j].present => get_job_status(j, TRUE, b).code = 404
         /\ meta[j].present => get_job_status(j, TRUE, TRUE).code = 200

\* C2 witness: a status poll answered 404 for an issued job whose record has
\* expired while the Task Queue still holds its SUCCESS.
C2_Witness ==
  /\ resp.op = "status" /\ resp.code = 404
  /\ Issued(resp.job)
  /\ ~meta[resp.job].present
  /\ backend[resp.job].state = "SUCCESS"

\* C3: get_result for a job id no submit ever issued answers 404, not the
\* "not ready" 202.
C3_UnknownResultNotFound ==
  (/\ resp.op = "result"
   /\ ~Issued(resp.job)
   /\ resp.code \notin {500, 503}) => resp.code = 404

C5_ProgressNeverDecreases ==
  [][(/\ resp.op = "status" /\ resp'.op = "status"
      /\ resp.job = resp'.job
      /\ resp.code = 200 /\ resp'.code = 200
      /\ resp.status # "completed" /\ resp'.status # "completed")
     => resp'.progress >= resp.progress]_vars

\* A query response reports job j under status st.
Reports(r, j, st) ==
  \/ r.op = "status" /\ r.job = j /\ r.code = 200 /\ r.status = st
  \/ r.op = "list" /\ r.code = 200 /\ <<j, st>> \in r.jobs

\* C6: once a query (get_status or list) has reported a job as processing, the
\* next query does not report it as queued.
C6_NoRegressionToQueued ==
  [][\A j \in JobIds :
       Reports(resp, j, "processing") => ~Reports(resp', j, "queued")]_vars

Oversize(inp) ==
  \/ inp.kind = "file" /\ inp.size > MAX_CONTENT_LENGTH
  \/ inp.kind = "url" /\ inp.url \in {"header_too_large", "stream_too_large"}

\* C7: an asynchronous submit of a file above the size limit is answered 413,
\* with no job id issued, no Metadata Record and no Task.
C7_OversizeRejected413 ==
  (StoreReachable /\ resp.op = "submit" /\ Oversize(resp.input)) =>
     resp.code = 413 /\ resp.job = NoJob

FailsValidation(inp) ==
  \/ inp.kind = "file" /\ inp.filename # ""
       /\ (inp.size = 0 \/ ~validate_audio_file(inp.filename))
  \/ inp.kind = "url" /\ inp.url \in {"invalid_url", "http_error", "stream_error"}

\* C8: a submit whose input fails validation (empty file, extension outside
\* the allow-list, invalid URL) or whose download fails is answered at once
\* with an error and creates no state: no task id, no Task, no record.
C8_InvalidInputCreatesNoState ==
  StoreReachable =>
    /\ FailsValidation(sub.input) => sub.job = NoJob
    /\ (resp.op = "submit" /\ FailsValidation(resp.input)) =>
         resp.code >= 400 /\ resp.job = NoJob

\* C9: when submit answers 202 with job_id, job:<job_id> exists with
\* status=submitted and the finite initial TTL, and the request has enqueued
\* one Task, whose id is job_id and whose input is the request's file.
C9_AcceptedHasRecordAndTask ==
  [][(sub.pc = "enqueued" /\ sub'.pc = "idle" /\ resp'.code = 202) =>
       LET j == resp'.job IN
       /\ resp'.op = "submit" /\ j = sub.job
       /\ j \in JobIds
       /\ meta'[j].present /\ meta'[j].status = "submitted"
       /\ ttl'[j] = JOB_RESULT_EXPIRY /\ ttl'[j] > 0
       /\ nextId' = j + 1
       /\ queue'[j] + deliveries'[j] >= 1
       /\ args'[j] = sub.path]_vars

\* C9 witness: a submit has answered 202 and the record of its job is there
\* as written.
C9_Witness ==
  /\ resp.op = "submit" /\ resp.code = 202
  /\ resp.job \in JobIds
  /\ meta[resp.job].present /\ meta[resp.job].status = "submitted"
  /\ ttl[resp.job] = JOB_RESULT_EXPIRY

\* C10: a submit during which the Task Queue or the Metadata Store was
\* unreachable (at startup or later) is answered 503.
C10_Unreachable503 ==
  (resp.op = "submit" /\ resp.fault # "none") => resp.code = 503

\* C11: when the Worker finishes a task with SUCCESS or FAILURE, the job's
\* Metadata Record (if it still exists and no cancel has overwritten its
\* status) holds the same outcome as the native result: completed_at, and
\* status completed with the same result, or status failed.
C11_TerminalOutcomeMirrored ==
  [][(/\ wk.pc = "store" /\ wk'.pc = "idle"
      /\ backend'[wk.job].state \in {"SUCCESS", "FAILURE"}
      /\ meta'[wk.job].present
      /\ meta'[wk.job].status # "cancelled") =>
       LET t == backend'[wk.job]
           m == meta'[wk.job]
       IN /\ m.completed_at
          /\ t.state = "SUCCESS" =>
               m.status = "completed" /\ m.result = t.result
          /\ t.state = "FAILURE" => m.status = "failed"]_vars

\* C12: in every reachable state every Metadata Record holds a result field
\* exactly when its status is completed.
C12_ResultIffCompleted ==
  \A j \in JobIds :
    meta[j].present =>
      (meta[j].result # NoJob <=> meta[j].status = "completed")

\* C13: in every reachable state every existing key job:<id> carries a
\* finite TTL.
C13_EveryKeyHasTTL ==
  \A j \in JobIds : meta[j].present => ttl[j] > 0

\* C14: every key job:<id> that has no TTL eventually carries a non-negative
\* TTL again (the Sweeper runs and gives it the default TTL).
C14_KeyEventuallyHasTTL ==
  \A j \in JobIds :
    (meta[j].present /\ ttl[j] = TTL_NO_EXPIRY) ~> (ttl[j] >= 0)

\* C15: a cancel of a job id without Metadata Record answers 404 and changes
\* nothing (no revoke sent, no record created or modified), also when the
\* record expires between cancel_job's existence check and its status write.
C15_CancelUnknownChangesNothing ==
  [][/\ (/\ StoreReachable
         /\ cn.pc = "idle" /\ cn'.pc = "idle"
         /\ resp' # resp /\ resp'.op = "cancel"
         /\ ~meta[resp'.job].present
         /\ resp'.code # 500) =>
          /\ resp'.code = 404
          /\ UNCHANGED <<meta, ttl, backend, revoking, revoked>>
     /\ (/\ cn.pc = "hset" /\ cn'.pc = "idle"
         /\ ~meta[cn.job].present) =>
          UNCHANGED <<meta, ttl>>]_vars

\* C16: a cancel that answers 200 on an existing Metadata Record changes only
\* the record's status field, to cancelled: its other fields, its TTL, the
\* other records and the native results are unchanged; when the job was
\* completed its stored result is still there and get_result still returns it.
C16_CancelChangesOnlyStatus ==
  [][(/\ cn.pc = "hset" /\ cn'.pc = "idle"
      /\ meta[cn.job].present) =>
       LET j == cn.job IN
       /\ resp'.op = "cancel" /\ resp'.job = j /\ resp'.code \in {200, 500}
       /\ resp'.code = 500 => meta' = meta
       /\ resp'.code = 200 =>
            /\ meta'[j] = [meta[j] EXCEPT !.status = "cancelled"]
            /\ \A k \in JobIds \ {j} : meta'[k] = meta[k]
       /\ UNCHANGED <<ttl, backend>>
       /\ (resp'.code = 200 /\ meta[j].status = "completed") =>
            meta'[j].result = ResultData(j)
       /\ backend[j].state = "SUCCESS" =>
            /\ backend'[j].result = ResultData(j)
            /\ get_job_result(j, TRUE).code = 200
            /\ get_job_result(j, TRUE).body = ResultData(j)]_vars

\* C16 witness: a completed job has been cancelled with answer 200; its record
\* reads cancelled and still holds the result the Task Queue returns.
C16_Witness ==
  /\ resp.op = "cancel" /\ resp.code = 200
  /\ meta[resp.job].present
  /\ meta[resp.job].status = "cancelled"
  /\ meta[resp.job].result = ResultData(resp.job)
  /\ backend[resp.job].state = "SUCCESS"
  /\ backend[resp.job].result = ResultData(resp.job)

\* C17: a cancel issued after the engine invocation has returned control to
\* the Worker is a no-op: when its revoke reaches the worker while that task
\* is still past the engine, the task goes on as before (its outcome, its
\* native state and its cleanup are not changed).
C17_LateCancelIsNoOp ==
  [][\A r \in revoking :
       (r[2] /\ r \notin revoking' /\ PastEngine(r[1])) =>
          /\ wk' = wk
          /\ backend'[r[1]] = backend[r[1]]
          /\ files' = files]_vars

\* C18: when a task the Worker started ends, on whatever path, its temporary
\* input file no longer exists.
C18_InputFileRemovedAtTaskEnd ==
  [][(wk.job # NoJob /\ wk'.job # wk.job) => wk.path \notin files']_vars

\* A message that tells the client the engine ran out of time.
TimeoutIndication(msg) == msg = "Transcription timeout (30 minutes exceeded)"

\* C19: when the engine exceeds its timeout, the task function removes the
\* input file and ends with the native state FAILURE, which get_status reports
\* as failed with a message that carries the timeout indication and is not
\* the generic "Transcription error: ..." message.
C19_TimeoutIsFailedWithIndication ==
  /\ [][(wk.pc = "finally" /\ wk.raised = "timeout" /\ wk'.pc = "store") =>
          wk.path \notin files']_vars
  /\ [][(wk.pc = "store" /\ wk.raised = "timeout" /\ wk'.pc = "idle"
         /\ backend'[wk.job].state # "REVOKED") =>
          LET j == wk.job IN
          /\ backend'[j].state = "FAILURE"
          /\ TimeoutIndication(backend'[j].error)
          /\ backend'[j].error # ErrorMessage("engine_failed")
          /\ status_of(backend'[j]).status = "failed"
          /\ result_code(backend'[j].state) = 400]_vars
  /\ [](\A j \in JobIds :
          (StoreReachable /\ backend[j].state = "FAILURE") =>
             /\ get_job_result(j, TRUE).code = 400
             /\ get_job_result(j, TRUE).message = backend[j].error
             /\ meta[j].present =>
                  /\ get_job_status(j, TRUE, TRUE).status = "failed"
                  /\ get_job_status(j, TRUE, TRUE).message = backend[j].error)

\* C19 witness: a client polled a job whose engine timed out: failed, with
\* the timeout message, and the input file is gone.
C19_Witness ==
  /\ resp.op = "status" /\ resp.code = 200
  /\ resp.status = "failed"
  /\ TimeoutIndication(resp.message)
  /\ backend[resp.job].state = "FAILURE"
  /\ TimeoutIndication(backend[resp.job].error)
  /\ args[resp.job] # NoPath
  /\ args[resp.job] \notin files

\* C20 as stated: every task a Worker has taken eventually ends in the native
\* state SUCCESS or FAILURE.
C20_TaskEndsSuccessOrFailure ==
  \A j \in JobIds :
    (wk.job = j) ~>
      (wk.job # j /\ backend[j].state \in {"SUCCESS", "FAILURE"})

\* C20: every task a Worker has taken eventually ends in a terminal native
\* state: SUCCESS, FAILURE, or REVOKED when a cancel of the job has reached the
\* worker. When the task function returns or raises, whatever was raised
\* (missing input, engine exit code, sidecar, store write, timeout) ends as
\* FAILURE with its message, a return as SUCCESS, and the worker slot is free
\* for the next task.
C20_TaskEndsTerminal ==
  /\ \A j \in JobIds :
       (wk.job = j) ~>
         /\ wk.job # j
         /\ \/ backend[j].state \in {"SUCCESS", "FAILURE"}
            \/ backend[j].state = "REVOKED" /\ j \in revoked
  /\ [][(wk.pc = "store" /\ wk'.pc = "idle"
         /\ backend'[wk.job].state # "REVOKED") =>
          /\ wk' = IdleWorker
          /\ IF wk.raised = "none"
             THEN backend'[wk.job].state = "SUCCESS"
             ELSE /\ backend'[wk.job].state = "FAILURE"
                  /\ backend'[wk.job].error = ErrorMessage(wk.raised)
                  /\ backend'[wk.job].error # NoTask.error]_vars

\* C20 witness: a task whose store write raised has ended FAILURE with the
\* message of that error, and the worker slot is free.
C20_Witness ==
  \E j \in JobIds :
    /\ backend[j].state = "FAILURE"
    /\ backend[j].error = ErrorMessage("store_error")
    /\ deliveries[j] >= 1
    /\ wk = IdleWorker

\* C21: when a task is delivered again after an earlier run that completed the
\* job and removed the input file, the second run ends as a clean FAILURE for
\* the missing input and the worker slot is free; and the re-dispatch leaves
\* the two stores as the first run left them: the record still completed and
\* the native result still the SUCCESS of the first run.
C21_RetryIsIdempotent ==
  [][(/\ wk.pc = "store" /\ wk'.pc = "idle"
      /\ deliveries[wk.job] >= 2
      /\ wk.raised = "not_found"
      /\ backend'[wk.job].state # "REVOKED") =>
       LET j == wk.job IN
       /\ wk' = IdleWorker
       /\ meta' = meta
       /\ (meta[j].present /\ meta[j].status = "completed") =>
            /\ backend'[j].state = "SUCCESS"
            /\ backend'[j].result = meta[j].result]_vars

\* C22: each task run goes Received (STARTED) -> PROCESSING/10 ->
\* PROCESSING/30 -> SUCCESS (reported with progress 100) or FAILURE: progress
\* 10 is published first, progress 30 only by a run whose input-file check
\* has passed and right before the engine is invoked, SUCCESS only after
\* progress 30, FAILURE only from PROCESSING, and nothing publishes progress
\* over a terminal state.
C22_TaskStateOrder ==
  [][/\ \A j \in JobIds :
          LET old == backend[j]
              new == backend'[j]
          IN /\ (new.progress = 10 /\ old.progress # 10) =>
                  wk.job = j /\ wk.pc = "p10" /\ old.state = "STARTED"
             /\ (new.progress = 30 /\ old.progress # 30) =>
                  /\ wk.job = j /\ wk.pc = "p30" /\ wk'.pc = "engine"
                  /\ old.state = "PROCESSING" /\ old.progress = 10
             /\ (new.state = "SUCCESS" /\ old.state # "SUCCESS") =>
                  /\ old.state = "PROCESSING" /\ old.progress = 30
                  /\ status_of(new).progress = 100
             /\ (new.state = "FAILURE" /\ old.state # "FAILURE") =>
                  old.state = "PROCESSING"
             /\ old.state \in {"SUCCESS", "FAILURE", "REVOKED"} =>
                  new.state # "PROCESSING"
     /\ (wk'.pc = "p30" /\ wk.pc # "p30") =>
          wk.pc = "check" /\ wk.path \in files
     /\ (wk'.pc = "engine" /\ wk.pc # "engine") =>
          wk.pc = "p30" /\ backend'[wk'.job].progress = 30
     /\ (wk'.pc = "sidecar" /\ wk.pc # "sidecar") => wk.pc = "engine"]_vars

\* C22 witness: a run has gone through all of its states: the task is SUCCESS
\* after a single delivery, reported with progress 100.
C22_Witness ==
  \E j \in JobIds :
    /\ backend[j].state = "SUCCESS"
    /\ deliveries[j] = 1
    /\ status_of(backend[j]).progress = 100
    /\ wk = IdleWorker

\* C23: after its creation a Metadata Record's status is rewritten only by
\* the owning Worker's terminal write over the value the Gateway created it
\* with (cancel's own mark cancelled set aside): no component's write replaces
\* a status another component has written, in particular the Gateway's
\* submitted never replaces the Worker's completed.
C23_NoWriteWriteRace ==
  [][\A j \in JobIds :
       (/\ meta[j].present /\ meta'[j].present
        /\ meta'[j].status # meta[j].status
        /\ meta'[j].status # "cancelled") =>
          meta[j].status = "submitted" /\ meta'[j].status = "completed"]_vars

\* C24: a run of the Sweeper changes only TTLs, and only of existing keys
\* that have none, which get the default TTL: a key that has a TTL keeps it,
\* no key is created or deleted and no field of any record changes; and a
\* second run right after a full run changes nothing.
C24_SweeperFrame ==
  /\ [][Sweeper =>
          /\ UNCHANGED <<meta, backend, queue, files>>
          /\ \A j \in JobIds :
               /\ ttl[j] # TTL_NO_EXPIRY => ttl'[j] = ttl[j]
               /\ ttl'[j] # ttl[j] => meta[j].present /\ ttl'[j] = SWEEP_TTL
               /\ ttl'[j] >= ttl[j]]_vars
  /\ [](LET once == Swept(ttl, NoExpiryKeys(ttl))
        IN /\ NoExpiryKeys(once) = {}
           /\ Swept(once, NoExpiryKeys(once)) = once)

\* C24 witness: a submit was answered 500 because its expire call failed
\* after the hset, which left job:<id> without TTL; the key, still as the
\* Gateway wrote it, now carries the default TTL a Sweeper run gave it.
C24_Witness ==
  /\ resp.op = "submit" /\ resp.code = 500 /\ resp.fault = "store"
  /\ resp.job \in JobIds
  /\ meta[resp.job].present
  /\ meta[resp.job].status = "submitted"
  /\ ttl[resp.job] = SWEEP_TTL

\* ------------------------------------------------------ text extraction
\* str.strip() on a text: the blanks at both ends removed.
RECURSIVE StripLeft(_)
StripLeft(t) ==
  IF t = << >> THEN << >>
  ELSE IF Head(t) = " " THEN StripLeft(Tail(t)) ELSE t

RECURSIVE StripRight(_)
StripRight(t) ==
  IF t = << >> THEN << >>
  ELSE IF t[Len(t)] = " " THEN StripRight(SubSeq(t, 1, Len(t) - 1)) ELSE t

Strip(t) == StripRight(StripLeft(t))

\* ' '.join(parts)
RECURSIVE Join(_)
Join(parts) ==
  IF parts = << >> THEN << >>
  ELSE IF Len(parts) = 1 THEN parts[1]
  ELSE parts[1] \o <<" ">> \o Join(Tail(parts))

Truthy(t) == t # << >>

\* celery_worker.py:121-129: the text and segments the Worker takes from
\* the sidecar d.
worker_extract(d) ==
  IF d.shape = "result" /\ d.result # << >>
  THEN [done |-> TRUE,
        text |-> Join([i \in 1..Len(d.result) |-> Strip(d.result[i])]),
        segments |-> d.result]
  ELSE [done |-> TRUE, text |-> << >>, segments |-> << >>]

\* app.py:166-177: the text and segments the synchronous path takes from
\* the sidecar d.
sync_extract(d) ==
  IF d.shape = "result"
  THEN LET kept == SelectSeq(d.result, Truthy)
       IN [done |-> TRUE,
           text |-> Join([i \in 1..Len(kept) |-> Strip(kept[i])]),
           segments |-> d.result]
  ELSE IF d.shape = "transcription"
  THEN [done |-> TRUE, text |-> d.transcription, segments |-> d.segments]
  ELSE [done |-> TRUE, text |-> << >>, segments |-> << >>]

\* The Worker parses the sidecar of a successful job.
ExtractWorker ==
  /\ ~extracted.worker.done
  /\ extracted' = [extracted EXCEPT !.worker = worker_extract(data)]
  /\ UNCHANGED <<redis_client, data, storeVars, queueVars, files, nextId,
                 sub, wk, cn, resp>>

\* The synchronous path parses the same sidecar.
ExtractSync ==
  /\ ~extracted.sync.done
  /\ extracted' = [extracted EXCEPT !.sync = sync_extract(data)]
  /\ UNCHANGED <<redis_client, data, storeVars, queueVars, files, nextId,
                 sub, wk, cn, resp>>

\* The two extractions applied to every sidecar the engine can write.
InitText ==
  /\ InitSystem
  /\ data \in Sidecars
  /\ extracted = NoExtract

NextText == ExtractWorker \/ ExtractSync

SpecText == InitText /\ [][NextText]_vars

\* ------------------------------------------------------------- claims (2)
\* The text of a sidecar as specified: the stripped texts of its segments in
\* order, the empty ones left out, joined by single blanks; for the
\* transcription shape, the transcription it carries.
ExpectedText(d) ==
  IF d.shape = "result"
  THEN LET stripped == [i \in 1..Len(d.result) |-> Strip(d.result[i])]
       IN Join(SelectSeq(stripped, Truthy))
  ELSE IF d.shape = "transcription" THEN d.transcription
  ELSE << >>

ExpectedSegments(d) ==
  IF d.shape = "result" THEN d.result
  ELSE IF d.shape = "transcription" THEN d.segments
  ELSE << >>

\* C25: for both sidecar shapes the Worker's text is the segment texts in
\* order joined by single separators with the empty ones skipped, its
\* segments are the sidecar's, and both equal what the synchronous path
\* extracts from the same sidecar.
C25_WorkerTextMatchesSync ==
  extracted.worker.done =>
    /\ extracted.worker.text = ExpectedText(data)
    /\ extracted.worker.segments = ExpectedSegments(data)
    /\ extracted.sync.done => extracted.worker = extracted.sync

\* C26: whenever a task of a job waits in the Task Queue or is run by the
\* Worker, the job's Metadata Record exists (and so get_status does not answer
\* 404 for it and the Worker's terminal write does not create the record).
C26_RecordExistsBeforeTask ==
  \A j \in JobIds :
    (queue[j] > 0 \/ wk.job = j) =>
       /\ meta[j].present
       /\ StoreReachable => get_job_status(j, TRUE, TRUE).code # 404

\* C27: when submit answers with an error, nothing of the submission is left:
\* no task of it waits in the Task Queue or runs in the Worker, and no
\* Metadata Record of it exists.
C27_SubmitAllOrNothing ==
  [][(/\ sub.pc # "idle" /\ sub'.pc = "idle"
      /\ resp'.op = "submit" /\ resp'.code >= 400
      /\ sub.job # NoJob) =>
       /\ queue'[sub.job] = 0
       /\ wk'.job # sub.job
       /\ ~meta'[sub.job].present]_vars

\* C28: once get_status has reported a job completed, the next get_status
\* that finds its Metadata Record reports it completed too.
C28_CompletedIsAbsorbing ==
  [][(/\ resp.op = "status" /\ resp.code = 200
      /\ resp.status = "completed"
      /\ resp'.op = "status" /\ resp'.code = 200
      /\ resp'.job = resp.job) =>
       resp'.status = "completed"]_vars

\* C29: in every state list_jobs and get_status give a job the same unified
\* status, whatever its native state, and a list filtered by a status holds
\* exactly the listed jobs get_status reports under that status.
C29_ListAgreesWithStatus ==
  StoreReachable =>
    \A j \in JobKeys :
      /\ list_status(backend[j].state) =
           get_job_status(j, TRUE, TRUE).status
      /\ \A f \in Filters \ {NoFilter} :
           (\E st \in Filters : <<j, st>> \in list_jobs(JobKeys, f, TRUE).jobs)
             <=> get_job_status(j, TRUE, TRUE).status = f

\* C30: a submission whose URL download ended in an error (invalid URL,
\* HTTP or transport failure, declared or streamed size above the cap) is
\* answered with a 4xx validation error, creates no job, and leaves no file
\* at the download's target path.
C30_DownloadErrorLeavesNothing ==
  (/\ StoreReachable
   /\ resp.op = "submit"
   /\ resp.input.kind = "url"
   /\ resp.input.url # "ok") =>
     /\ resp.code \in 400..499
     /\ resp.job = NoJob
     /\ <<0, resp.input.filename>> \notin files

\* ---------------------------------------------------------- Input paths
\* Two submissions, in the same second or in different ones, of an upload
\* and of a URL download that carry the same file name.
MaxPathJobs == MaxJobs + 1
PathTimestamps == Timestamps \cup {2}
PathInputs ==
  PlainUploads \cup {[kind |-> "url", filename |-> "a.wav", size |-> 5,
                      url |-> "ok"]}

SubmitPaths ==
  \/ \E inp \in PathInputs, ts \in PathTimestamps :
       SubmitBeginUpTo(inp, ts, MaxPathJobs)
  \/ \E ok \in BOOLEAN : SubmitEnqueue(ok)
  \/ \E h \in BOOLEAN, e \in BOOLEAN : SubmitStore(h, e)

NextPaths == SubmitPaths \/ (\E j \in JobIds : Deliver(j)) \/ TaskStep

SpecPaths == Init /\ [][NextPaths]_vars

\* Job j has been accepted and its task has not ended.
Unfinished(j) ==
  Issued(j) /\ backend[j].state \notin {"SUCCESS", "FAILURE", "REVOKED"}

\* C31: two accepted jobs never have the same input file path; the Gateway
\* never saves an upload or a download onto the input path of a job that has
\* not finished; and the Worker's cleanup of one job never removes the input
\* file of another job that has not finished.
C31_InputPathsNeverShared ==
  /\ [](\A j \in JobIds, k \in JobIds :
          (Issued(j) /\ Issued(k) /\ j # k) => args[j] # args[k])
  /\ [][(sub.pc = "idle" /\ sub'.pc = "saved") =>
          \A j \in JobIds : Unfinished(j) => args[j] # sub'.path]_vars
  /\ [][(wk.pc = "finally" /\ wk'.pc = "store") =>
          \A k \in JobIds \ {wk.job} :
            (Unfinished(k) /\ args[k] \in files) => args[k] \in files']_vars

====
